---- MODULE Spec2Model ----
(***************************************************************************)
(* Model of the string-family codecs of zvariant (src/src/str.rs: String,  *)
(* ObjectPath, Signature) and of the textual form of zbus match rules      *)
(* (src/zbus/src/match_rule.rs).                                           *)
(*                                                                         *)
(* Byte buffers are sequences of integers 0..255, texts are the UTF-8      *)
(* bytes of a Rust String.  A Result is a record [kind, err, val] whose    *)
(* kind is "Ok", "Err" or "Panic" (the call unwinds instead of returning). *)
(***************************************************************************)
EXTENDS Integers, Sequences, FiniteSets, TLC

VARIABLES
    native,           \* byte order of the host the code was built for
    overflow_checks,  \* whether the build traps integer overflow
    context,          \* EncodingContext: byte order and absolute position
    bytes,            \* the output Vec<u8> handed to encode_into
    before,           \* bytes.len() when the last encode_into was entered
    value,            \* the value last encoded: [ty, text]
    data,             \* the SharedData handed to slice_data / decode
    origin,           \* where data came from
    decoded,          \* last decode(data, ..) call and its result
    sliced,           \* last slice_data(data, ..) call and its result
    redecoded,        \* decode of the slice that slice_data returned
    variant,          \* a Variant value
    unwrapped,        \* last is / take_from_variant / from_variant call
    builder,          \* MatchRuleBuilder: the rule under construction
    rule,             \* the MatchRule that build() returned
    rule_str,         \* rule.to_string()
    parsed            \* MatchRule::try_from(rule_str)

codec_vars == <<native, overflow_checks, context, bytes, before, value, data,
                origin, decoded, sliced, redecoded>>
variant_vars == <<variant, unwrapped>>
rule_vars == <<builder, rule, rule_str, parsed>>
vars == <<codec_vars, variant_vars, rule_vars>>

----------------------------------------------------------------------------
(* Bounds *)
MaxPos == 3          \* largest context position tried by SpecAlign
MaxPrefix == 2       \* most bytes already in the output buffer in SpecAlign
MaxCtxPos == 1       \* largest context position tried by Spec
MaxBuf == 3          \* longest hand-made input buffer
MaxTrail == 1        \* bytes appended after a complete encoding
LongLen == 256       \* length of the longest text tried

(* Program constants *)
U8Range == 256                 \* values of a u8
Huge == 2^30                   \* stands for every integer of at least 2^30 (u32 and
                               \* usize values far above the length of any buffer here)

----------------------------------------------------------------------------
(* Results *)
Ok(v) == [kind |-> "Ok", err |-> "", val |-> v]
Err(e) == [kind |-> "Err", err |-> e, val |-> <<>>]
Panic == [kind |-> "Panic", err |-> "", val |-> <<>>]

Rep(b, n) == [i \in 1..n |-> b]

(* SharedData::head(n): the first n bytes; the reference behaviour aborts  *)
(* when n exceeds the length.                                              *)
head(d, n) == IF n > Len(d) THEN Panic ELSE Ok(SubSeq(d, 1, n))

(* crate::ensure_sufficient_bytes *)
ensure_sufficient_bytes(b, n) ==
    IF Len(b) < n THEN Err("InsufficientData") ELSE Ok(<<>>)

(* EncodingContext::padding_for *)
padding_for(ctx, alignment, additional_offset) ==
    (alignment - ((ctx.position + additional_offset) % alignment)) % alignment

(* VariantType::add_padding *)
add_padding(b, ctx, alignment) ==
    b \o Rep(0, padding_for(ctx, alignment, Len(b)))

(* VariantType::ensure_correct_signature *)
ensure_correct_signature(own, signature) ==
    IF signature = own THEN Ok(<<>>) ELSE Err("IncorrectType")

(* u32::to_*_bytes and u32::from_*_bytes *)
u32_to_bytes(n, order) ==
    LET le == <<n % 256, (n \div 256) % 256, (n \div 65536) % 256,
                (n \div 16777216) % 256>>
    IN IF order = "LE" THEN le ELSE <<le[4], le[3], le[2], le[1]>>

u32_from_bytes(b, order) ==
    LET le == IF order = "LE" THEN b ELSE <<b[4], b[3], b[2], b[1]>>
    IN IF le[4] >= 64 THEN Huge
       ELSE le[1] + 256 * le[2] + 65536 * le[3] + 16777216 * le[4]

(* crate::utils::usize_to_u32 *)
usize_to_u32(n) == n

(* <u32 as SimpleVariantType>::slice_data_simple *)
u32_slice_data_simple(d, ctx) ==
    IF Len(d) < 4 THEN Err("InsufficientData") ELSE head(d, 4)

(* <u32 as SimpleVariantType>::decode_simple: the length field is read in  *)
(* the context's byte order.                                               *)
u32_decode_simple(d, ctx) == u32_from_bytes(d, ctx.order)

(* core::str::from_utf8: the well-formedness test of the standard library. *)
(* lead_len is the length of the character a byte starts (0: it starts     *)
(* none), second_ok the range of the byte after a lead byte.               *)
is_cont(c) == c >= 128 /\ c <= 191

lead_len(c) ==
    IF c < 128 THEN 1
    ELSE IF c >= 194 /\ c <= 223 THEN 2
    ELSE IF c >= 224 /\ c <= 239 THEN 3
    ELSE IF c >= 240 /\ c <= 244 THEN 4
    ELSE 0

second_ok(c, d) ==
    CASE c = 224 -> d >= 160 /\ d <= 191
      [] c = 237 -> d >= 128 /\ d <= 159
      [] c = 240 -> d >= 144 /\ d <= 191
      [] c = 244 -> d >= 128 /\ d <= 143
      [] OTHER -> is_cont(d)

utf8_valid(b) ==
    LET n == Len(b)
        char_at(i) ==
            LET k == lead_len(b[i])
            IN /\ k > 0
               /\ i + k - 1 <= n
               /\ k >= 2 => second_ok(b[i], b[i + 1])
               /\ \A j \in (i + 2)..(i + k - 1) : is_cont(b[j])
        covered(i) ==
            \E j \in (i - 3)..(i - 1) :
                /\ j >= 1
                /\ lead_len(b[j]) > i - j
                /\ \A m \in (j + 1)..(i - 1) : is_cont(b[m])
    IN \A i \in 1..n : IF is_cont(b[i]) THEN covered(i) ELSE char_at(i)

(* str::from_utf8(&bytes[lo..hi]) mapped to an owned text; the range       *)
(* expression itself panics when lo > hi or hi > bytes.len().              *)
from_utf8_range(b, lo, hi) ==
    IF lo > hi \/ hi > Len(b) THEN Panic
    ELSE LET s == SubSeq(b, lo + 1, hi)
         IN IF utf8_valid(s) THEN Ok(s) ELSE Err("InvalidUtf8")

----------------------------------------------------------------------------
(* String: signature "s", alignment 4 *)

String_encode_into_unpadded(self, b, ctx) ==
    b \o u32_to_bytes(usize_to_u32(Len(self)), native) \o self \o <<0>>

String_encode_into(self, b, ctx) ==
    LET len == Len(self)
        padded == add_padding(b, ctx, 4)
    IN padded \o u32_to_bytes(usize_to_u32(len), native) \o self \o <<0>>

String_slice_data(d, signature, ctx) ==
    LET sig_ok == ensure_correct_signature("s", signature)
        len_slice == u32_slice_data_simple(d, ctx)
    IN IF sig_ok.kind # "Ok" THEN sig_ok
       ELSE IF len_slice.kind # "Ok" THEN len_slice
       ELSE LET last_index == u32_decode_simple(len_slice.val, ctx)
                                + Len(len_slice.val) + 1
            IN head(d, last_index)

(* VariantType::slice_for_decoding, as String::decode uses it *)
String_slice_for_decoding(d, signature, ctx) ==
    LET sig_ok == ensure_correct_signature("s", signature)
    IN IF sig_ok.kind # "Ok" THEN sig_ok
       ELSE String_slice_data(d, signature, ctx)

String_decode(d, signature, ctx) ==
    LET slice == String_slice_for_decoding(d, signature, ctx)
    IN IF slice.kind # "Ok" THEN slice
       ELSE LET last_index == Len(slice.val) - 1
            IN from_utf8_range(slice.val, 4, last_index)

(* SimpleVariantType::slice_data_simple for String *)
String_slice_data_simple(d, ctx) == String_slice_data(d, "s", ctx)

----------------------------------------------------------------------------
(* ObjectPath: signature "o", alignment 4, delegates to String *)

ObjectPath_encode_into(self, b, ctx) == String_encode_into(self, b, ctx)

ObjectPath_slice_data(d, signature, ctx) ==
    LET sig_ok == ensure_correct_signature("o", signature)
    IN IF sig_ok.kind # "Ok" THEN sig_ok
       ELSE String_slice_data_simple(d, ctx)

ObjectPath_decode(d, signature, ctx) ==
    LET sig_ok == ensure_correct_signature("o", signature)
    IN IF sig_ok.kind # "Ok" THEN sig_ok
       ELSE String_decode(d, "s", ctx)

----------------------------------------------------------------------------
(* Signature: signature "g", alignment 1, no padding *)

Signature_encode_into(self, b, ctx) ==
    LET len == Len(self)
    IN b \o <<len % U8Range>> \o self \o <<0>>

Signature_slice_data_length_first(d, signature, ctx) ==
    LET sig_ok == ensure_correct_signature("g", signature)
    IN IF Len(d) < 1 THEN Err("InsufficientData")
       ELSE IF sig_ok.kind # "Ok" THEN sig_ok
       ELSE LET last_index == d[1] + 2
                enough == ensure_sufficient_bytes(d, last_index)
            IN IF enough.kind # "Ok" THEN enough
               ELSE head(d, last_index)

Signature_slice_data(d, signature, ctx) ==
    LET sig_ok == ensure_correct_signature("g", signature)
    IN IF sig_ok.kind # "Ok" THEN sig_ok
       ELSE IF Len(d) < 1 THEN Err("InsufficientData")
       ELSE LET last_index == d[1] + 2
                enough == ensure_sufficient_bytes(d, last_index)
            IN IF enough.kind # "Ok" THEN enough
               ELSE head(d, last_index)

(* data.len() - 1 on an empty buffer traps in a build with overflow checks *)
(* and wraps to usize::MAX in one without.                                 *)
Signature_decode(d, signature, ctx) ==
    LET sig_ok == ensure_correct_signature("g", signature)
    IN IF sig_ok.kind # "Ok" THEN sig_ok
       ELSE IF Len(d) = 0 /\ overflow_checks THEN Panic
       ELSE LET last_index == IF Len(d) = 0 THEN Huge ELSE Len(d) - 1
                enough == ensure_sufficient_bytes(d, last_index)
            IN IF enough.kind # "Ok" THEN enough
               ELSE from_utf8_range(d, 1, last_index)

----------------------------------------------------------------------------
(* Dispatch on the implementing type *)
Types == {"String", "ObjectPath", "Signature"}

signature_str(T) ==
    CASE T = "String" -> "s" [] T = "ObjectPath" -> "o" [] T = "Signature" -> "g"

alignment(T) ==
    CASE T = "String" -> 4 [] T = "ObjectPath" -> 4 [] T = "Signature" -> 1

encode_into(T, self, b, ctx) ==
    CASE T = "String" -> String_encode_into(self, b, ctx)
      [] T = "ObjectPath" -> ObjectPath_encode_into(self, b, ctx)
      [] T = "Signature" -> Signature_encode_into(self, b, ctx)

slice_data(T, d, signature, ctx) ==
    CASE T = "String" -> String_slice_data(d, signature, ctx)
      [] T = "ObjectPath" -> ObjectPath_slice_data(d, signature, ctx)
      [] T = "Signature" -> Signature_slice_data(d, signature, ctx)

decode(T, d, signature, ctx) ==
    CASE T = "String" -> String_decode(d, signature, ctx)
      [] T = "ObjectPath" -> ObjectPath_decode(d, signature, ctx)
      [] T = "Signature" -> Signature_decode(d, signature, ctx)

----------------------------------------------------------------------------
(* Inputs *)
Orders == {"LE", "BE"}
Texts == { <<>>, <<115>>, <<104, 105>>, <<195, 169>> }
LongTexts == { Rep(97, LongLen - 1), Rep(97, LongLen) }
(* Only the one-byte length of a Signature is within reach of a long text. *)
TextsOf(T) == IF T = "Signature" THEN Texts \cup LongTexts ELSE Texts
Signatures == {"s", "o", "g", ""}
RawBytes == {0, 3, 97}
TrailBytes == {0, 255}

NoValue == [ty |-> "none", text |-> <<>>]
NoCall == [called |-> FALSE, ty |-> "", signature |-> "", out |-> Err("")]
Call(T, signature, out) ==
    [called |-> TRUE, ty |-> T, signature |-> signature, out |-> out]
SameCall(c, T, signature) == c.called /\ c.ty = T /\ c.signature = signature

(* Option<T>: None is the empty sequence, Some(x) the sequence holding x *)
None == <<>>
Some(x) == <<x>>

NoVariant == [tag |-> "none", value |-> <<>>]
NoUnwrap == [called |-> FALSE, op |-> "", ty |-> "", is |-> FALSE, out |-> Err("")]

(* MatchRuleBuilder::new(): no field set *)
EmptyRule ==
    [msg_type |-> None, sender |-> None, interface |-> None, member |-> None,
     path_spec |-> None, destination |-> None, args |-> <<>>,
     arg_paths |-> <<>>, arg0namespace |-> None]

variant_idle == variant = NoVariant /\ unwrapped = NoUnwrap
rule_idle == builder = EmptyRule /\ rule = None /\ rule_str = None /\ parsed = None
codec_idle ==
    /\ native = "LE" /\ overflow_checks = TRUE
    /\ context = [order |-> "LE", position |-> 0]
    /\ bytes = <<>> /\ before = 0 /\ value = NoValue
    /\ data = <<>> /\ origin = "raw"
    /\ decoded = NoCall /\ sliced = NoCall /\ redecoded = NoCall

(* Number of header bytes and of all bytes of the encoding of a value *)
HeaderLen(T) == IF T = "Signature" THEN 1 ELSE 4
EncLen(v) == HeaderLen(v.ty) + Len(v.text) + 1

Init ==
    /\ native \in Orders
    /\ overflow_checks \in BOOLEAN
    /\ context \in [order : Orders, position : 0..MaxCtxPos]
    /\ bytes = <<>>
    /\ before = 0
    /\ value = NoValue
    /\ data = <<>>
    /\ origin = "raw"
    /\ decoded = NoCall /\ sliced = NoCall /\ redecoded = NoCall
    /\ variant_idle /\ rule_idle

(* value.encode_into(&mut bytes, context) *)
EncodeInto(T, text) ==
    /\ value = NoValue
    /\ data = <<>>
    /\ bytes' = encode_into(T, text, bytes, context)
    /\ before' = Len(bytes)
    /\ value' = [ty |-> T, text |-> text]
    /\ UNCHANGED <<native, overflow_checks, context, data, origin, decoded,
                   sliced, redecoded, variant_vars, rule_vars>>

(* The caller skips what precedes the value (earlier content and the       *)
(* value's padding) and hands the rest to the decoder.                     *)
Receive ==
    /\ value # NoValue
    /\ origin = "raw"
    /\ LET skip == before + padding_for(context, alignment(value.ty), before)
       IN data' = SubSeq(bytes, skip + 1, Len(bytes))
    /\ origin' = "encoded"
    /\ decoded' = NoCall /\ sliced' = NoCall /\ redecoded' = NoCall
    /\ UNCHANGED <<native, overflow_checks, context, bytes, before, value,
                   variant_vars, rule_vars>>

(* The final byte of the encoding is lost. *)
Truncate ==
    /\ origin = "encoded"
    /\ Len(data) > 0
    /\ data' = SubSeq(data, 1, Len(data) - 1)
    /\ origin' = "truncated"
    /\ decoded' = NoCall /\ sliced' = NoCall /\ redecoded' = NoCall
    /\ UNCHANGED <<native, overflow_checks, context, bytes, before, value,
                   variant_vars, rule_vars>>

(* Further bytes follow the encoding in the buffer. *)
Trail(b) ==
    /\ origin \in {"encoded", "trailing"}
    /\ Len(data) < EncLen(value) + MaxTrail
    /\ data' = Append(data, b)
    /\ origin' = "trailing"
    /\ decoded' = NoCall /\ sliced' = NoCall /\ redecoded' = NoCall
    /\ UNCHANGED <<native, overflow_checks, context, bytes, before, value,
                   variant_vars, rule_vars>>

(* An arbitrary buffer arrives, byte by byte. *)
PushByte(b) ==
    /\ value = NoValue
    /\ origin = "raw"
    /\ Len(data) < MaxBuf
    /\ data' = Append(data, b)
    /\ decoded' = NoCall /\ sliced' = NoCall /\ redecoded' = NoCall
    /\ UNCHANGED <<native, overflow_checks, context, bytes, before, value,
                   origin, variant_vars, rule_vars>>

(* T::decode(&data, signature, context); results of calls with other       *)
(* arguments are forgotten.                                                *)
Decode(T, signature) ==
    /\ decoded' = Call(T, signature, decode(T, data, signature, context))
    /\ sliced' = IF SameCall(sliced, T, signature) THEN sliced ELSE NoCall
    /\ redecoded' = IF SameCall(sliced, T, signature) THEN redecoded ELSE NoCall
    /\ UNCHANGED <<native, overflow_checks, context, bytes, before, value,
                   data, origin, variant_vars, rule_vars>>

(* T::slice_data(&data, signature, context) *)
SliceData(T, signature) ==
    /\ sliced' = Call(T, signature, slice_data(T, data, signature, context))
    /\ decoded' = IF SameCall(decoded, T, signature) THEN decoded ELSE NoCall
    /\ redecoded' = NoCall
    /\ UNCHANGED <<native, overflow_checks, context, bytes, before, value,
                   data, origin, variant_vars, rule_vars>>

(* T::decode on the slice that slice_data returned *)
DecodeSlice ==
    /\ sliced.called /\ sliced.out.kind = "Ok"
    /\ redecoded' = Call(sliced.ty, sliced.signature,
                         decode(sliced.ty, sliced.out.val, sliced.signature, context))
    /\ UNCHANGED <<native, overflow_checks, context, bytes, before, value,
                   data, origin, decoded, sliced, variant_vars, rule_vars>>

Next ==
    \/ \E T \in Types : \E text \in TextsOf(T) : EncodeInto(T, text)
    \/ Receive
    \/ Truncate
    \/ \E b \in TrailBytes : Trail(b)
    \/ \E b \in RawBytes : PushByte(b)
    \/ \E T \in Types, signature \in Signatures : Decode(T, signature)
    \/ \E T \in Types, signature \in Signatures : SliceData(T, signature)
    \/ DecodeSlice

Spec == Init /\ [][Next]_vars

(* Encoding alone, from every position and into buffers that already hold  *)
(* earlier content.                                                        *)
InitAlign ==
    /\ native \in Orders
    /\ overflow_checks \in BOOLEAN
    /\ context \in [order : Orders, position : 0..MaxPos]
    /\ bytes \in {Rep(0, n) : n \in 0..MaxPrefix}
    /\ before = Len(bytes)
    /\ value = NoValue
    /\ data = <<>>
    /\ origin = "raw"
    /\ decoded = NoCall /\ sliced = NoCall /\ redecoded = NoCall
    /\ variant_idle /\ rule_idle

NextAlign == \E T \in Types : \E text \in TextsOf(T) : EncodeInto(T, text)

SpecAlign == InitAlign /\ [][NextAlign]_vars

----------------------------------------------------------------------------
(* Variant: wrapping a value and unwrapping it as a type *)

String_is(v) == v.tag = "Str"

String_take_from_variant_untagged(v) ==
    IF v.tag \in {"Str", "ObjectPath"} THEN Ok(v.value) ELSE Err("IncorrectType")

String_take_from_variant(v) ==
    IF v.tag = "Str" THEN Ok(v.value) ELSE Err("IncorrectType")

String_from_variant(v) ==
    IF v.tag = "Str" THEN Ok(v.value) ELSE Err("IncorrectType")

String_to_variant(self) == [tag |-> "Str", value |-> self]

ObjectPath_is(v) == v.tag = "ObjectPath"

ObjectPath_take_from_variant(v) ==
    IF v.tag = "ObjectPath" THEN Ok(v.value) ELSE Err("IncorrectType")

ObjectPath_from_variant(v) ==
    IF v.tag = "ObjectPath" THEN Ok(v.value) ELSE Err("IncorrectType")

ObjectPath_to_variant(self) == [tag |-> "ObjectPath", value |-> self]

Signature_is(v) == v.tag = "Signature"

Signature_take_from_variant(v) ==
    IF v.tag = "Signature" THEN Ok(v.value) ELSE Err("IncorrectType")

Signature_from_variant(v) ==
    IF v.tag = "Signature" THEN Ok(v.value) ELSE Err("IncorrectType")

Signature_to_variant(self) == [tag |-> "Signature", value |-> self]

is(T, v) ==
    CASE T = "String" -> String_is(v)
      [] T = "ObjectPath" -> ObjectPath_is(v)
      [] T = "Signature" -> Signature_is(v)

take_from_variant(T, v) ==
    CASE T = "String" -> String_take_from_variant(v)
      [] T = "ObjectPath" -> ObjectPath_take_from_variant(v)
      [] T = "Signature" -> Signature_take_from_variant(v)

from_variant(T, v) ==
    CASE T = "String" -> String_from_variant(v)
      [] T = "ObjectPath" -> ObjectPath_from_variant(v)
      [] T = "Signature" -> Signature_from_variant(v)

to_variant(T, self) ==
    CASE T = "String" -> String_to_variant(self)
      [] T = "ObjectPath" -> ObjectPath_to_variant(self)
      [] T = "Signature" -> Signature_to_variant(self)

InitVariant == codec_idle /\ variant_idle /\ rule_idle

(* value.to_variant() *)
ToVariant(T, text) ==
    /\ value = NoValue
    /\ value' = [ty |-> T, text |-> text]
    /\ variant' = to_variant(T, text)
    /\ unwrapped' = NoUnwrap
    /\ UNCHANGED <<native, overflow_checks, context, bytes, before, data,
                   origin, decoded, sliced, redecoded, rule_vars>>

(* T::is(&variant) *)
Is(T) ==
    /\ variant # NoVariant
    /\ unwrapped' = [called |-> TRUE, op |-> "is", ty |-> T,
                     is |-> is(T, variant), out |-> Err("")]
    /\ UNCHANGED <<codec_vars, variant, rule_vars>>

(* T::from_variant(&variant): the variant is only borrowed *)
FromVariant(T) ==
    /\ variant # NoVariant
    /\ unwrapped' = [called |-> TRUE, op |-> "from_variant", ty |-> T,
                     is |-> FALSE, out |-> from_variant(T, variant)]
    /\ UNCHANGED <<codec_vars, variant, rule_vars>>

(* T::take_from_variant(variant): the variant is consumed *)
TakeFromVariant(T) ==
    /\ variant # NoVariant
    /\ unwrapped' = [called |-> TRUE, op |-> "take_from_variant", ty |-> T,
                     is |-> FALSE, out |-> take_from_variant(T, variant)]
    /\ variant' = NoVariant
    /\ UNCHANGED <<codec_vars, rule_vars>>

NextVariant ==
    \/ \E T \in Types : \E text \in TextsOf(T) : ToVariant(T, text)
    \/ \E T \in Types : Is(T)
    \/ \E T \in Types : FromVariant(T)
    \/ \E T \in Types : TakeFromVariant(T)

SpecVariant == InitVariant /\ [][NextVariant]_vars

----------------------------------------------------------------------------
(* Match rules.  A string is the sequence of its characters. *)

MaxArgs == 1         \* most args and most arg_paths of a rule

K_type == <<"t", "y", "p", "e">>
K_sender == <<"s", "e", "n", "d", "e", "r">>
K_interface == <<"i", "n", "t", "e", "r", "f", "a", "c", "e">>
K_member == <<"m", "e", "m", "b", "e", "r">>
K_path == <<"p", "a", "t", "h">>
K_path_namespace == <<"p", "a", "t", "h", "_", "n", "a", "m", "e", "s", "p", "a", "c", "e">>
K_destination == <<"d", "e", "s", "t", "i", "n", "a", "t", "i", "o", "n">>
K_arg0namespace == <<"a", "r", "g", "0", "n", "a", "m", "e", "s", "p", "a", "c", "e">>
K_arg == <<"a", "r", "g">>
K_arg_path == <<"a", "r", "g", "_", "p", "a", "t", "h">>

MessageTypes == {"Invalid", "MethodCall", "MethodReturn", "Error", "Signal"}
S_error == <<"e", "r", "r", "o", "r">>
S_method_call == <<"m", "e", "t", "h", "o", "d", "_", "c", "a", "l", "l">>
S_method_return == <<"m", "e", "t", "h", "o", "d", "_", "r", "e", "t", "u", "r", "n">>
S_signal == <<"s", "i", "g", "n", "a", "l">>

(* The names a run uses; the name types accept exactly these. *)
BusNames == { <<"o", ".", "s">> }
InterfaceNames == { <<"o", ".", "i">>, <<"o", ".", "n">> }
MemberNames == { <<"M">> }
UniqueNames == { <<":", "1", ".", "2">> }
ObjectPaths == { <<"/", "p">>, <<"/", "a">> }

RuleOk(b) == [kind |-> "Ok", err |-> "", val |-> b]
RuleErr(e) == [kind |-> "Err", err |-> e, val |-> EmptyRule]

(* MatchRuleBuilder's methods *)
builder_msg_type(b, t) == [b EXCEPT !.msg_type = Some(t)]
builder_sender(b, v) ==
    IF v \in BusNames THEN RuleOk([b EXCEPT !.sender = Some(v)])
    ELSE RuleErr("InvalidName")
builder_interface(b, v) ==
    IF v \in InterfaceNames THEN RuleOk([b EXCEPT !.interface = Some(v)])
    ELSE RuleErr("InvalidName")
builder_member(b, v) ==
    IF v \in MemberNames THEN RuleOk([b EXCEPT !.member = Some(v)])
    ELSE RuleErr("InvalidName")
builder_path(b, v) ==
    IF v \in ObjectPaths
    THEN RuleOk([b EXCEPT !.path_spec = Some([kind |-> "Path", path |-> v])])
    ELSE RuleErr("InvalidPath")
builder_path_namespace(b, v) ==
    IF v \in ObjectPaths
    THEN RuleOk([b EXCEPT !.path_spec = Some([kind |-> "PathNamespace", path |-> v])])
    ELSE RuleErr("InvalidPath")
builder_destination(b, v) ==
    IF v \in UniqueNames THEN RuleOk([b EXCEPT !.destination = Some(v)])
    ELSE RuleErr("InvalidName")
builder_arg0namespace(b, v) ==
    IF v \in InterfaceNames THEN RuleOk([b EXCEPT !.arg0namespace = Some(v)])
    ELSE RuleErr("InvalidName")
builder_add_arg(b, v) == RuleOk([b EXCEPT !.args = Append(@, v)])
builder_add_arg_path(b, v) ==
    IF v \in ObjectPaths THEN RuleOk([b EXCEPT !.arg_paths = Append(@, v)])
    ELSE RuleErr("InvalidPath")
builder_build(b) == b

add_match_rule_string_component(r, key, v) ==
    (IF r # <<>> THEN r \o <<",">> ELSE r) \o key \o <<"=", "'">> \o v \o <<"'">>

(* <MatchRule as ToString>::to_string *)
to_string(self) ==
    LET s1 == IF self.msg_type = None THEN <<>>
              ELSE LET msg_type == self.msg_type[1]
                       type_str == CASE msg_type = "Error" -> S_error
                                     [] msg_type = "MethodCall" -> S_method_call
                                     [] msg_type = "MethodReturn" -> S_method_return
                                     [] msg_type = "Signal" -> S_signal
                                     [] OTHER -> <<>>
                   IN add_match_rule_string_component(<<>>, K_type, type_str)
        s2 == IF self.sender = None THEN s1
              ELSE add_match_rule_string_component(s1, K_sender, self.sender[1])
        s3 == IF self.interface = None THEN s2
              ELSE add_match_rule_string_component(s2, K_interface, self.interface[1])
        s4 == IF self.member = None THEN s3
              ELSE add_match_rule_string_component(s3, K_member, self.member[1])
        s5 == IF self.destination = None THEN s4
              ELSE add_match_rule_string_component(s4, K_destination,
                                                   self.destination[1])
        s6 == IF self.path_spec = None THEN s5
              ELSE LET path_spec == self.path_spec[1]
                       key == IF path_spec.kind = "Path" THEN K_path
                              ELSE K_path_namespace
                   IN add_match_rule_string_component(s5, key, path_spec.path)
    IN IF self.msg_type = Some("Invalid") THEN Panic ELSE Ok(s6)

(* str::split(sep): the pieces between the separators, at least one piece *)
split(s, sep) ==
    LET seps == {i \in 1..Len(s) : s[i] = sep}
        nth(k) == IF k = 0 THEN 0
                  ELSE IF k > Cardinality(seps) THEN Len(s) + 1
                  ELSE CHOOSE i \in seps : Cardinality({j \in seps : j < i}) = k - 1
    IN [k \in 1..(Cardinality(seps) + 1) |-> SubSeq(s, nth(k - 1) + 1, nth(k) - 1)]

(* str::split_once(sep): None, or the texts before and after the first sep *)
split_once(s, sep) ==
    LET seps == {i \in 1..Len(s) : s[i] = sep}
    IN IF seps = {} THEN None
       ELSE LET i == CHOOSE i \in seps : \A j \in seps : i <= j
            IN Some(<<SubSeq(s, 1, i - 1), SubSeq(s, i + 1, Len(s))>>)

(* One turn of the loop of try_from: the builder after a component *)
try_from_component(b, component) ==
    LET kv == split_once(component, "=")
    IN IF kv = None THEN RuleErr("InvalidMatchRule")
       ELSE LET key == kv[1][1]
                quoted == kv[1][2]
            IN IF \/ key = <<>>
                  \/ Len(quoted) < 3
                  \/ quoted[1] # "'"
                  \/ quoted[Len(quoted)] # "'"
               THEN RuleErr("InvalidMatchRule")
               ELSE LET v == SubSeq(quoted, 2, Len(quoted) - 1)
                    IN CASE key = K_type ->
                              ( CASE v = S_error -> RuleOk(builder_msg_type(b, "Error"))
                                  [] v = S_method_call ->
                                        RuleOk(builder_msg_type(b, "MethodCall"))
                                  [] v = S_method_return ->
                                        RuleOk(builder_msg_type(b, "MethodReturn"))
                                  [] v = S_signal -> RuleOk(builder_msg_type(b, "Signal"))
                                  [] OTHER -> RuleErr("InvalidMatchRule") )
                         [] key = K_sender -> builder_sender(b, v)
                         [] key = K_interface -> builder_interface(b, v)
                         [] key = K_member -> builder_member(b, v)
                         [] key = K_path -> builder_path(b, v)
                         [] key = K_path_namespace -> builder_path_namespace(b, v)
                         [] key = K_destination -> builder_destination(b, v)
                         [] key = K_arg0namespace -> builder_arg0namespace(b, v)
                         [] key = K_arg -> builder_add_arg(b, v)
                         [] key = K_arg_path -> builder_add_arg_path(b, v)
                         [] OTHER -> RuleErr("InvalidMatchRule")

RECURSIVE try_from_loop(_, _, _)
try_from_loop(b, components, i) ==
    IF i > Len(components) THEN RuleOk(builder_build(b))
    ELSE LET r == try_from_component(b, components[i])
         IN IF r.kind # "Ok" THEN r ELSE try_from_loop(r.val, components, i + 1)

(* <MatchRule as TryFrom<&str>>::try_from *)
try_from(s) ==
    LET components == split(s, ",")
    IN IF Len(components) = 0 THEN RuleErr("InvalidMatchRule")
       ELSE try_from_loop(EmptyRule, components, 1)

InitRule == codec_idle /\ variant_idle /\ rule_idle

Building == rule = None

SetMsgType(t) ==
    /\ Building
    /\ builder' = builder_msg_type(builder, t)
    /\ UNCHANGED <<codec_vars, variant_vars, rule, rule_str, parsed>>

(* A builder method that takes a name or a path; an invalid one is an      *)
(* error and leaves no builder behind.                                     *)
SetChecked(r) ==
    /\ Building
    /\ r.kind = "Ok"
    /\ builder' = r.val
    /\ UNCHANGED <<codec_vars, variant_vars, rule, rule_str, parsed>>

SetSender(v) == SetChecked(builder_sender(builder, v))
SetInterface(v) == SetChecked(builder_interface(builder, v))
SetMember(v) == SetChecked(builder_member(builder, v))
SetPath(v) == SetChecked(builder_path(builder, v))
SetPathNamespace(v) == SetChecked(builder_path_namespace(builder, v))
SetDestination(v) == SetChecked(builder_destination(builder, v))
SetArg0Namespace(v) == SetChecked(builder_arg0namespace(builder, v))
AddArg(v) ==
    /\ Len(builder.args) < MaxArgs
    /\ SetChecked(builder_add_arg(builder, v))
AddArgPath(v) ==
    /\ Len(builder.arg_paths) < MaxArgs
    /\ SetChecked(builder_add_arg_path(builder, v))

Build ==
    /\ Building
    /\ rule' = Some(builder_build(builder))
    /\ UNCHANGED <<codec_vars, variant_vars, builder, rule_str, parsed>>

(* rule.to_string() *)
RuleToString ==
    /\ rule # None
    /\ rule_str = None
    /\ rule_str' = Some(to_string(rule[1]))
    /\ UNCHANGED <<codec_vars, variant_vars, builder, rule, parsed>>

(* MatchRule::try_from(rule_str.as_str()) *)
TryFrom ==
    /\ rule_str # None
    /\ rule_str[1].kind = "Ok"
    /\ parsed = None
    /\ parsed' = Some(try_from(rule_str[1].val))
    /\ UNCHANGED <<codec_vars, variant_vars, builder, rule, rule_str>>

NextRule ==
    \/ \E t \in MessageTypes : SetMsgType(t)
    \/ SetSender(<<"o", ".", "s">>)
    \/ SetInterface(<<"o", ".", "i">>)
    \/ SetMember(<<"M">>)
    \/ SetPath(<<"/", "p">>)
    \/ SetPathNamespace(<<"/", "p">>)
    \/ SetDestination(<<":", "1", ".", "2">>)
    \/ SetArg0Namespace(<<"o", ".", "n">>)
    \/ AddArg(<<"x">>)
    \/ AddArgPath(<<"/", "a">>)
    \/ Build
    \/ RuleToString
    \/ TryFrom

SpecRule == InitRule /\ [][NextRule]_vars

----------------------------------------------------------------------------
(* Properties *)

OwnCall(c) == c.called /\ c.ty = value.ty /\ c.signature = signature_str(value.ty)

(* C1: decoding the bytes that encode_into produced for a text, with the   *)
(* type's own signature and the same context, returns that text (for a     *)
(* Signature: a text of at most 255 bytes).                                *)
C1_RoundTrip ==
    ( /\ origin = "encoded"
      /\ OwnCall(decoded)
      /\ value.ty = "Signature" => Len(value.text) < U8Range )
    => decoded.out = Ok(value.text)

(* C2: decoding a valid encoding whose final byte was removed returns      *)
(* Err(InsufficientData).                                                  *)
C2_Truncation ==
    (origin = "truncated" /\ OwnCall(decoded))
    => decoded.out = Err("InsufficientData")

(* C3: on a buffer shorter than 1 + N + 1 bytes, N being its first byte,   *)
(* Signature::slice_data and Signature::decode return                      *)
(* Err(InsufficientData).                                                  *)
C3_SignatureShort ==
    (Len(data) >= 1 /\ Len(data) < 1 + data[1] + 1)
    => /\ SameCall(sliced, "Signature", "g")
          => sliced.out = Err("InsufficientData")
       /\ SameCall(decoded, "Signature", "g")
          => decoded.out = Err("InsufficientData")

(* C4: whenever slice_data succeeds on a buffer, decode of the buffer      *)
(* returns what decode of the slice returns.                               *)
C4_DecodeBounded ==
    ( /\ sliced.called /\ sliced.out.kind = "Ok"
      /\ SameCall(decoded, sliced.ty, sliced.signature)
      /\ redecoded.called )
    => decoded.out = redecoded.out

(* C5: decode and slice_data called with a signature other than the type's *)
(* own return Err(IncorrectType), whatever the buffer holds.               *)
C5_SignatureMismatch ==
    \A c \in {decoded, sliced} :
        (c.called /\ c.signature # signature_str(c.ty))
        => c.out = Err("IncorrectType")

C5_Witness ==
    /\ data = <<>>
    /\ decoded.called /\ sliced.called
    /\ decoded.ty = "Signature" /\ decoded.signature = "s"
    /\ sliced.ty = "Signature" /\ sliced.signature = "s"
    /\ decoded.out = Err("IncorrectType")
    /\ sliced.out = Err("IncorrectType")

(* C6: decode and slice_data return Ok or an error on every buffer and     *)
(* signature; no call panics.                                              *)
C6_NoPanic ==
    \A c \in {decoded, sliced, redecoded} : c.called => c.out.kind # "Panic"

(* C7: after encode_into the length field of the value starts at an        *)
(* absolute offset that is a multiple of the type's alignment: String and  *)
(* ObjectPath put (4 - p mod 4) mod 4 zero bytes before it, p being the    *)
(* absolute offset at which the write begins, and Signature puts none.     *)
C7_Alignment ==
    value # NoValue =>
        LET idx == Len(bytes) - EncLen(value)
            p == context.position + before
        IN /\ idx >= before
           /\ (context.position + idx) % alignment(value.ty) = 0
           /\ value.ty \in {"String", "ObjectPath"}
              => idx - before = (4 - (p % 4)) % 4
           /\ value.ty = "Signature" => idx = before
           /\ \A i \in (before + 1)..idx : bytes[i] = 0
           /\ SubSeq(bytes, idx + HeaderLen(value.ty) + 1, Len(bytes) - 1)
                = value.text
           /\ bytes[Len(bytes)] = 0

C7_Witness ==
    /\ value.ty = "String" /\ value.text = <<104, 105>>
    /\ context.position = 1 /\ before = 0
    /\ Len(bytes) = 3 + EncLen(value)
    /\ SubSeq(bytes, 1, 3) = <<0, 0, 0>>

(* C8: Signature::encode_into never emits a length byte that differs from  *)
(* the number of content bytes it writes.                                  *)
C8_SignatureLength ==
    value.ty = "Signature" => bytes[before + 1] = Len(bytes) - before - 2

(* C9: a value wrapped by to_variant is recognised by its own type, which  *)
(* unwraps it to the original text; the other two types do not recognise   *)
(* it and fail to unwrap it with IncorrectType.                            *)
C9_VariantUnwrap ==
    unwrapped.called =>
        IF unwrapped.ty = value.ty
        THEN /\ unwrapped.op = "is" => unwrapped.is
             /\ unwrapped.op # "is" => unwrapped.out = Ok(value.text)
        ELSE /\ unwrapped.op = "is" => ~unwrapped.is
             /\ unwrapped.op # "is" => unwrapped.out = Err("IncorrectType")

C9_Witness ==
    /\ value.ty = "ObjectPath" /\ value.text = <<104, 105>>
    /\ unwrapped.called /\ unwrapped.op = "take_from_variant"
    /\ unwrapped.ty = "String"
    /\ unwrapped.out = Err("IncorrectType")

(* C10: for every rule the builder produces, to_string returns a string    *)
(* and try_from of that string succeeds with a rule equal to the original. *)
C10_RuleRoundTrip ==
    /\ rule_str # None => rule_str[1].kind = "Ok"
    /\ parsed # None => parsed[1] = RuleOk(rule[1])

(* C11: String and ObjectPath encode_into write the 4-byte length field in *)
(* the byte order of the encoding context (least significant byte first    *)
(* for little-endian, most significant first for big-endian), whatever the *)
(* byte order of the host.                                                 *)
C11_LengthByteOrder ==
    value.ty \in {"String", "ObjectPath"} =>
        LET idx == Len(bytes) - EncLen(value)
        IN SubSeq(bytes, idx + 1, idx + 4)
             = u32_to_bytes(Len(value.text), context.order)

====
